---- MODULE Spec2Model ----
(***************************************************************************)
(* notify-run-rs: the broadcast delivery pipeline (send / subscribe /      *)
(* info / register_channel handlers of src/server.rs) behind the           *)
(* per-identity rate limiter of src/rate_limiter.rs.                       *)
(*                                                                         *)
(* A request occupies a slot of `req` from its arrival at the router to    *)
(* its response; each await point of a handler is one step of the slot.    *)
(* The document store is `channels`, `subscriptions`, `messages`; the      *)
(* keyed limiter state is `rate_limiter`.  `sent_log` and `recent` are     *)
(* history variables: they record what a send fetched and what the push    *)
(* service did, and how many admitted requests of an identity are not yet  *)
(* replenished; no action reads them.                                      *)
(***************************************************************************)
EXTENDS Integers, Sequences, FiniteSets, TLC

VARIABLES channels, subscriptions, messages, rate_limiter, req, sent_log, recent, window

vars == <<channels, subscriptions, messages, rate_limiter, req, sent_log, recent, window>>

store == <<channels, subscriptions, messages>>

-----------------------------------------------------------------------------
(* Bounds of the model.                                                    *)

\* requests handled concurrently in Spec and SpecCas
MaxInFlight == 2
\* channels registered in one run; requests can name one id more
MaxChannels == 1
\* subscription ids a subscribe request can carry: 1..MaxSubId
MaxSubId == 2
\* messages persisted over all channels in one run
MaxMessages == 1
\* handles the pool hands out at once
PoolMaxSize == 2
\* rate-limited requests of one identity not yet replenished, in Spec
MaxBurst == 1

(* Program constants.                                                      *)

\* Timeout (seconds) of external service when invoking push request.
TIMEOUT_SECS == 10
\* Rate limit on calls that access database.
MAX_REQUESTS_PER_MINUTE == 20
\* .with_page_size(10) of the subscription listing in send
SUBSCRIPTIONS_PAGE_SIZE == 10
\* .with_page_size(10) of the message listing in info
MESSAGES_PAGE_SIZE == 10

\* request slots: one more than the pool has handles, so that a request
\* can find the pool saturated
Slots == 1..(PoolMaxSize + 1)
\* the slots that requests of Spec and SpecCas arrive on
Workers == 1..MaxInFlight
ChannelIds == 1..(MaxChannels + 1)
SubIds == 1..MaxSubId

Min(a, b) == IF a < b THEN a ELSE b
Max(a, b) == IF a > b THEN a ELSE b

-----------------------------------------------------------------------------
(* Request inputs.                                                         *)

\* the x-forwarded-for header of a request: absent, present but not valid
\* text (to_str fails), or present with a text value
NoHeader == [present |-> FALSE, text |-> FALSE, value |-> ""]
OpaqueHeader == [present |-> TRUE, text |-> FALSE, value |-> ""]
TextHeader(v) == [present |-> TRUE, text |-> TRUE, value |-> v]

ClientA == "1.1.1.1"
ClientB == "2.2.2.2"
Clients == {ClientA, ClientB}

\* endpoints a subscription request can carry
GoodEndpoint == "https://push.example.com/abc"
PathEndpoint == "/abc"
Endpoints == {GoodEndpoint, PathEndpoint}

Bodies == {"hello"}
SenderIp == "10.0.0.1"

\* what one push delivery can come to: send_message returned Ok, returned
\* an error, or did not return before the timeout elapsed
PushResults == {"Ok", "Err"}
Pending == "Pending"
Elapsed == "Elapsed"
PushErrorText == "unauthorized"
\* send_message returned the error of WebPushClient::new()
ClientErr == "ClientErr"
ClientErrorText == "could not construct client"

-----------------------------------------------------------------------------
(* Pure functions of the code.                                             *)

\* Uri::from_str(endpoint).ok().map(authority).flatten().unwrap_or_default()
EndpointDomain(endpoint) ==
    CASE endpoint = GoodEndpoint -> "push.example.com"
      [] endpoint = PathEndpoint -> ""
      [] OTHER -> ""

\* faulty variant: an elapsed timeout is reported like a delivery error
ResultStatusNoTimeout(outcome) ==
    CASE outcome = "Ok" -> "201"
      [] OTHER -> "unauthorized"

\* the match on the timeout's result in send_message_with_timeout
ResultStatus(outcome) ==
    CASE outcome = "Ok" -> "201"
      [] outcome = "Err" -> PushErrorText
      [] outcome = ClientErr -> ClientErrorText
      [] outcome = Elapsed -> "Timed out."

\* the MessageResult one delivery future resolves to
SendMessageWithTimeout(subscription, outcome) ==
    [result_status |-> ResultStatus(outcome),
     endpoint_domain |-> EndpointDomain(subscription.endpoint)]

\* a URL is the sequence of its parts
ExampleUrl == <<"https://www.example.com/">>

\* serde_urlencoded::from_str::<MessageFormData>: a body decodes when it
\* is a form with a message field; `+` decodes to a space.  The action is
\* an Option: <<>> is None, <<url>> is Some(url).
FromStr(body) ==
    CASE body = "message=this+is+my+message" ->
            [ok |-> TRUE, message |-> "this is my message", action |-> <<>>]
      [] body = "message=this+is+my+message&action=https://www.example.com/" ->
            [ok |-> TRUE, message |-> "this is my message",
             action |-> <<ExampleUrl>>]
      [] body = "message=" ->
            [ok |-> TRUE, message |-> "", action |-> <<>>]
      [] OTHER -> [ok |-> FALSE, message |-> "", action |-> <<>>]

\* faulty variant: the text is never decoded as a form
ParseNewLiteral(message, channel, default_action) ==
    [message |-> message,
     channel |-> channel,
     silent |-> FALSE,
     vibrate |-> FALSE,
     data |-> [action |-> default_action]]

\* MessagePayload::parse_new
ParseNew(message, channel, default_action) ==
    LET decoded == FromStr(message)
        form == IF decoded.ok THEN decoded
                ELSE [ok |-> TRUE, message |-> message, action |-> <<>>]
    IN [message |-> form.message,
        channel |-> channel,
        silent |-> FALSE,
        vibrate |-> FALSE,
        data |-> [action |-> IF form.action # <<>> THEN form.action[1]
                             ELSE default_action]]

\* server_state.channel_page_url(channel_id): the page of the channel under
\* the server base
ChannelPageUrl(channel_id) == <<"/c/", channel_id>>

RECURSIVE SortedSeq(_)
\* the documents of a collection in the store's listing order (by name)
SortedSeq(S) ==
    IF S = {} THEN <<>>
    ELSE LET m == CHOOSE x \in S : \A y \in S : x <= y
         IN <<m>> \o SortedSeq(S \ {m})

\* faulty variant: the page size is ignored
GetPageAll(collection, n) ==
    LET ids == SortedSeq(DOMAIN collection)
    IN [i \in 1..Len(ids) |-> [id |-> ids[i], value |-> collection[ids[i]]]]

\* faulty variant: the page holds one document more than its size
GetPageOneMore(collection, n) ==
    LET ids == SortedSeq(DOMAIN collection)
    IN [i \in 1..Min(Len(ids), n + 1) |-> [id |-> ids[i], value |-> collection[ids[i]]]]

\* list().with_page_size(n).get_page(): the first n documents
GetPage(collection, n) ==
    LET ids == SortedSeq(DOMAIN collection)
    IN [i \in 1..Min(Len(ids), n) |-> [id |-> ids[i], value |-> collection[ids[i]]]]

\* faulty variant: one bucket for every request
KeyOfShared(h) == "unknown"

\* faulty variant: a header that is not valid text has a key of its own
KeyOfRaw(h) ==
    IF ~h.present THEN "unknown" ELSE IF h.text THEN h.value ELSE "invalid"

\* the key of the bucket a request is charged to
KeyOf(h) == IF h.present /\ h.text THEN h.value ELSE "unknown"

\* faulty variant: the subscribe route has a limiter of its own
BucketPerRoute(route, h) == IF route = "subscribe" THEN "subscribe" ELSE KeyOf(h)

\* the bucket a request of a rate-limited route is charged to: the layer
\* holds one RateLimiter for all its routes, keyed by the identity alone
BucketOf(route, h) == KeyOf(h)

\* the routes wrapped by the RateLimiterMiddleware layer
RateLimitedRoutes == {"info", "subscribe", "register_channel"}

\* faulty variant: one request too many is allowed
AllowedOneMore(outstanding) == outstanding <= MAX_REQUESTS_PER_MINUTE

\* governor's decision on the bucket value it read: cells outstanding
\* (not yet replenished), of a burst of MAX_REQUESTS_PER_MINUTE
Allowed(outstanding) == outstanding < MAX_REQUESTS_PER_MINUTE

Load(key) == IF key \in DOMAIN rate_limiter THEN rate_limiter[key] ELSE 0

-----------------------------------------------------------------------------
(* State.                                                                  *)

IdleReq ==
    [pc |-> "idle", route |-> "none", channel_id |-> 0, xff |-> NoHeader,
     ip |-> "", prev |-> 0, verdict |-> "none", called |-> FALSE,
     handle |-> FALSE, sub_id |-> 0, endpoint |-> "", message |-> "",
     nsubs |-> 0, page |-> <<>>, outcome |-> <<>>, status |-> 0,
     wrote |-> FALSE, body |-> <<>>, retried |-> FALSE, failed |-> FALSE,
     payload |-> <<>>, overtaken |-> FALSE, path |-> "", location |-> <<>>]

\* the window history is kept when `watch` is set, the history of the
\* order in which deliveries resolve when `orders` is set
NoWindow ==
    [watch |-> FALSE, open |-> FALSE, age |-> 0, count |-> 0, last |-> "none",
     limited |-> FALSE, orders |-> FALSE]

Init ==
    /\ channels = {}
    /\ subscriptions = [c \in ChannelIds |-> <<>>]
    /\ messages = [c \in ChannelIds |-> <<>>]
    /\ rate_limiter = <<>>
    /\ req = [s \in Slots |-> IdleReq]
    /\ sent_log = [c \in ChannelIds |-> <<>>]
    /\ recent = [c \in Clients |-> 0]
    /\ window = NoWindow

InUse == Cardinality({s \in Slots : req[s].handle})

TotalMessages ==
    LET RECURSIVE Sum(_)
        Sum(S) == IF S = {} THEN 0
                  ELSE LET c == CHOOSE x \in S : TRUE
                       IN Len(messages[c]) + Sum(S \ {c})
    IN Sum(ChannelIds)

SendsInFlight == Cardinality({s \in Slots : req[s].route = "send" /\ req[s].pc # "done"})

-----------------------------------------------------------------------------
(* The router and the rate limiter middleware.                             *)

\* faulty variant: the handle of a request that fails is not given back
RespondLeak(r, status) ==
    [r EXCEPT !.pc = "done", !.status = status, !.handle = r.handle /\ status # 200]

\* the request of slot s leaves with `status`; its pool handle is dropped
Respond(r, status) == [r EXCEPT !.pc = "done", !.status = status, !.handle = FALSE]

\* the request is handed to the wrapped handler (inner.call)
CallInner(r) == [r EXCEPT !.pc = "db", !.called = TRUE]

\* serve / active_routes: a request arrives and is routed.  A route of
\* active_routes enters RateLimiterMiddleware::call, which derives the key
\* and reads the key's bucket (creating it when absent); any other route
\* reaches its handler directly.
Receive(s, route, cid, h, sid, ep, body) ==
    /\ req[s].pc = "idle"
    /\ LET key == BucketOf(route, h)
           r == [IdleReq EXCEPT !.route = route, !.channel_id = cid, !.xff = h,
                                !.sub_id = sid, !.endpoint = ep, !.message = body]
       IN IF route \in RateLimitedRoutes
          THEN /\ req' = [req EXCEPT ![s] = [r EXCEPT !.pc = "check_key", !.ip = key,
                                                      !.prev = Load(key)]]
               /\ rate_limiter' = IF key \in DOMAIN rate_limiter THEN rate_limiter
                                  ELSE rate_limiter @@ (key :> 0)
          ELSE /\ req' = [req EXCEPT ![s] = CallInner(r)]
               /\ UNCHANGED rate_limiter
    /\ UNCHANGED <<store, sent_log, recent, window>>

\* faulty variant: the new bucket value is stored without comparing
BlindStore(current, expected) == TRUE

\* the compare-and-swap by which governor replaces the bucket value it read
CompareExchange(current, expected) == current = expected

\* faulty variant: the rejection does not return, the handler is called
RejectAndCall(r) == [CallInner(r) EXCEPT !.verdict = "rejected"]

\* the early return of the middleware on a rejected check
Reject(r) == [Respond(r, 429) EXCEPT !.verdict = "rejected"]

\* the history of the requests of ClientA: the window opened by the first
\* request after the previous window closed, the requests decided in it
\* and the verdict on the latest
WindowNote(w, verdict) ==
    IF w.open
    THEN [w EXCEPT !.count = Min(w.count + 1, MAX_REQUESTS_PER_MINUTE + 1),
                   !.last = verdict,
                   !.limited = w.limited \/ verdict = "rejected"]
    ELSE [w EXCEPT !.open = TRUE, !.age = 0, !.count = 1, !.last = verdict,
                   !.limited = w.limited \/ verdict = "rejected"]

Observe(r, verdict) ==
    /\ recent' = IF verdict = "admitted" /\ r.xff.present /\ r.xff.text
                 THEN [recent EXCEPT ![r.xff.value] = @ + 1]
                 ELSE recent
    /\ window' = IF window.watch /\ r.xff = TextHeader(ClientA)
                 THEN WindowNote(window, verdict)
                 ELSE window

\* rate_limiter.check_key(&ip): the decision on the value read; an allowed
\* request takes its cell by compare-and-swap and reads again when another
\* request changed the bucket in between
CheckKey(s) ==
    /\ req[s].pc = "check_key"
    /\ LET r == req[s]
           current == rate_limiter[r.ip]
       IN IF ~Allowed(r.prev)
          THEN /\ req' = [req EXCEPT ![s] = Reject(r)]
               /\ Observe(r, "rejected")
               /\ UNCHANGED rate_limiter
          ELSE IF CompareExchange(current, r.prev)
          THEN /\ rate_limiter' = [rate_limiter EXCEPT ![r.ip] = r.prev + 1]
               /\ req' = [req EXCEPT ![s] = [CallInner(r) EXCEPT !.verdict = "admitted"]]
               /\ Observe(r, "admitted")
          ELSE /\ req' = [req EXCEPT ![s].prev = current, ![s].retried = TRUE]
               /\ UNCHANGED <<rate_limiter, recent, window>>
    /\ UNCHANGED <<store, sent_log>>

\* one replenishment interval (a minute / MAX_REQUESTS_PER_MINUTE) passes:
\* every bucket regains one cell.  check_key does not suspend, so no
\* interval ends inside it.
WindowTicks == MAX_REQUESTS_PER_MINUTE

Tick ==
    /\ \A s \in Slots : req[s].pc # "check_key"
    /\ rate_limiter' = [k \in DOMAIN rate_limiter |-> Max(rate_limiter[k] - 1, 0)]
    /\ recent' = [c \in Clients |-> Max(recent[c] - 1, 0)]
    /\ window' = IF ~window.open THEN window
                 ELSE IF window.age + 1 >= WindowTicks
                 THEN [NoWindow EXCEPT !.watch = TRUE, !.limited = window.limited,
                                       !.orders = window.orders]
                 ELSE [window EXCEPT !.age = @ + 1]
    /\ \/ rate_limiter' # rate_limiter
       \/ window' # window
    /\ UNCHANGED <<store, req, sent_log>>

-----------------------------------------------------------------------------
(* The handlers, one step per await.                                       *)

\* server_state.db().await: a handle of the pool, when one is free
DbAcquire(s) ==
    /\ req[s].pc = "db"
    /\ InUse < PoolMaxSize
    /\ req' = [req EXCEPT ![s].handle = TRUE,
                          ![s].pc = IF req[s].route = "register_channel"
                                    THEN "create_channel" ELSE "get"]
    /\ UNCHANGED <<store, rate_limiter, sent_log, recent, window>>

\* faulty variant: the existence of the channel is not checked
ChannelsGetUnchecked(cid, store_ok) == store_ok

\* channels.get(&*channel_id).await is Ok: the store answered and holds
\* the channel
ChannelsGetOk(cid, store_ok) == store_ok /\ cid \in channels

\* channels.get(..).await.log_error_not_found()? of info, subscribe, send
ChannelsGet(s, store_ok) ==
    /\ req[s].pc = "get"
    /\ LET r == req[s]
       IN req' = [req EXCEPT ![s] =
             IF ChannelsGetOk(r.channel_id, store_ok)
             THEN [r EXCEPT !.pc = CASE r.route = "info" -> "list_messages"
                                     [] r.route = "subscribe" -> "try_create"
                                     [] r.route = "send" -> "list_subscriptions"]
             ELSE [Respond(r, 404) EXCEPT !.failed = ~store_ok]]
    /\ UNCHANGED <<store, rate_limiter, sent_log, recent, window>>

\* register_channel: channels.create(..).await.log_error_internal()?
ChannelsCreate(s, store_ok, id) ==
    /\ req[s].pc = "create_channel"
    /\ IF store_ok
       THEN /\ id \notin channels
            /\ channels' = channels \cup {id}
            /\ req' = [req EXCEPT ![s] = [Respond(req[s], 200) EXCEPT !.channel_id = id]]
       ELSE /\ req' = [req EXCEPT ![s] = [Respond(req[s], 500) EXCEPT !.failed = TRUE]]
            /\ UNCHANGED channels
    /\ UNCHANGED <<subscriptions, messages, rate_limiter, sent_log, recent, window>>

\* faulty variant: the page of the oldest messages, oldest first
MessageInfosOldest(msgs) ==
    [i \in 1..Min(Len(msgs), MESSAGES_PAGE_SIZE) |->
        [message |-> msgs[i].message, result |-> msgs[i].result]]

\* the MessageInfo list of info: the newest messages first, one page
MessageInfos(msgs) ==
    LET n == Min(Len(msgs), MESSAGES_PAGE_SIZE)
    IN [i \in 1..n |-> [message |-> msgs[Len(msgs) + 1 - i].message,
                        result |-> msgs[Len(msgs) + 1 - i].result]]

\* info: messages.list()...get_page().await and the Ok(Json(ChannelInfo))
ListMessages(s) ==
    /\ req[s].pc = "list_messages"
    /\ req' = [req EXCEPT ![s] = [Respond(req[s], 200) EXCEPT
                   !.body = MessageInfos(messages[req[s].channel_id])]]
    /\ UNCHANGED <<store, rate_limiter, sent_log, recent, window>>

\* faulty variant: the collection is replaced by the new document
TryCreateOnly(collection, key, value) == (key :> value)

\* faulty variant: an existing document is overwritten (set)
SetDoc(collection, key, value) ==
    [k \in DOMAIN collection \cup {key} |-> IF k = key THEN value ELSE collection[k]]

\* try_create of the store: the document is created unless the key exists
TryCreateDoc(collection, key, value) ==
    IF key \in DOMAIN collection THEN collection ELSE collection @@ (key :> value)

\* subscribe: subscriptions.try_create(..).await.log_error_internal()?
TryCreate(s, store_ok) ==
    /\ req[s].pc = "try_create"
    /\ LET r == req[s]
       IN IF store_ok
          THEN /\ subscriptions' = [subscriptions EXCEPT ![r.channel_id] =
                      TryCreateDoc(@, r.sub_id,
                                   [endpoint |-> r.endpoint, auth |-> "auth", p256dh |-> "p256dh"])]
               /\ req' = [req EXCEPT ![s] = Respond(r, 200)]
          ELSE /\ req' = [req EXCEPT ![s] = [Respond(r, 500) EXCEPT !.failed = TRUE]]
               /\ UNCHANGED subscriptions
    /\ UNCHANGED <<channels, messages, rate_limiter, sent_log, recent, window>>

\* send: MessagePayload::parse_new, then
\* subscriptions.list().with_page_size(10).get_page().await and the loop
\* that makes one delivery future per fetched subscription
ListSubscriptions(s) ==
    /\ req[s].pc = "list_subscriptions"
    /\ LET r == req[s]
           page == GetPage(subscriptions[r.channel_id], SUBSCRIPTIONS_PAGE_SIZE)
       IN req' = [req EXCEPT ![s] = [r EXCEPT !.pc = "join",
                     !.nsubs = Cardinality(DOMAIN subscriptions[r.channel_id]),
                     !.page = page,
                     !.payload = ParseNew(r.message, r.channel_id,
                                          ChannelPageUrl(r.channel_id)),
                     !.outcome = [i \in 1..Len(page) |-> Pending]]]
    /\ UNCHANGED <<store, rate_limiter, sent_log, recent, window>>

\* faulty variant: a delivery that returned an error is attempted again
PushRespondsRetry(s, i, result) ==
    /\ req[s].pc = "join"
    /\ i \in 1..Len(req[s].outcome)
    /\ req[s].outcome[i] \in {Pending, "Err", ClientErr}
    /\ req' = [req EXCEPT ![s].outcome[i] = result]
    /\ UNCHANGED <<store, rate_limiter, sent_log, recent, window>>

\* history: delivery i resolves while a delivery of an earlier
\* subscription of the page is still pending
Overtakes(r, i) ==
    window.orders /\ (r.overtaken \/ \E j \in 1..(i - 1) : r.outcome[j] = Pending)

\* the push service answers delivery i of the send of slot s
PushResponds(s, i, result) ==
    /\ req[s].pc = "join"
    /\ i \in 1..Len(req[s].outcome)
    /\ req[s].outcome[i] = Pending
    /\ req' = [req EXCEPT ![s].outcome[i] = result,
                          ![s].overtaken = Overtakes(req[s], i)]
    /\ UNCHANGED <<store, rate_limiter, sent_log, recent, window>>

\* the timeout of delivery i elapses before send_message returned
TimerFires(s, i) ==
    /\ req[s].pc = "join"
    /\ i \in 1..Len(req[s].outcome)
    /\ req[s].outcome[i] = Pending
    /\ req' = [req EXCEPT ![s].outcome[i] = Elapsed,
                          ![s].overtaken = Overtakes(req[s], i)]
    /\ UNCHANGED <<store, rate_limiter, sent_log, recent, window>>

\* faulty variant: the results in the reverse order of the page
JoinAllReversed(page, outcome) ==
    [i \in 1..Len(page) |->
        SendMessageWithTimeout(page[Len(page) + 1 - i].value, outcome[Len(page) + 1 - i])]

RECURSIVE Delivered(_, _)
\* faulty variant: only the deliveries that succeeded are recorded
Delivered(page, outcome) ==
    IF Len(page) = 0 THEN <<>>
    ELSE IF Head(outcome) = "Ok"
         THEN <<[result_status |-> "201", endpoint_domain |-> ""]>>
              \o Delivered(Tail(page), Tail(outcome))
         ELSE Delivered(Tail(page), Tail(outcome))

\* faulty variant: the first delivery that fails decides the result of all
\* (try_join_all)
JoinAllFirstError(page, outcome) ==
    LET bad == {i \in 1..Len(outcome) : outcome[i] # "Ok"}
        first == CHOOSE i \in bad : \A j \in bad : i <= j
    IN [i \in 1..Len(page) |->
          SendMessageWithTimeout(page[i].value,
                                 IF bad = {} THEN outcome[i] ELSE outcome[first])]

\* join_all(futures).await: the results of the deliveries, in the order
\* of the futures
JoinAll(page, outcome) ==
    [i \in 1..Len(page) |-> SendMessageWithTimeout(page[i].value, outcome[i])]

\* join_all is ready when every future is
AllResolved(outcome) == \A i \in 1..Len(outcome) : outcome[i] # Pending

\* faulty variant: a failed delivery fails the request
SendStatusOfDeliveries(store_ok, outcome) ==
    IF store_ok /\ \A i \in 1..Len(outcome) : outcome[i] = "Ok" THEN 200 ELSE 500

\* what send answers after messages.create
SendStatus(store_ok, outcome) == IF store_ok THEN 200 ELSE 500

\* faulty variant: the Message record is written while deliveries are still
\* pending
MessagesCreateEarly(s, store_ok) ==
    /\ req[s].pc = "join"
    /\ LET r == req[s]
           m == [message |-> r.payload.message, sender_ip |-> SenderIp, result |-> <<>>]
       IN /\ messages' = [messages EXCEPT ![r.channel_id] = Append(@, m)]
          /\ sent_log' = [sent_log EXCEPT ![r.channel_id] =
                 Append(@, [nsubs |-> r.nsubs, at_write |-> r.nsubs, page |-> <<>>,
                            text |-> r.message, overtaken |-> r.overtaken,
                            outcome |-> r.outcome])]
          /\ req' = [req EXCEPT ![s] = [Respond(r, 200) EXCEPT !.wrote = TRUE]]
    /\ UNCHANGED <<channels, subscriptions, rate_limiter, recent, window>>

\* send: messages.create(&Message {..}).await.log_error_internal()? and
\* Ok("ok")
MessagesCreate(s, store_ok) ==
    /\ req[s].pc = "join"
    /\ AllResolved(req[s].outcome)
    /\ LET r == req[s]
           message_result == JoinAll(r.page, r.outcome)
           m == [message |-> r.payload.message, sender_ip |-> SenderIp,
                 result |-> message_result]
       IN /\ IF store_ok
             THEN /\ messages' = [messages EXCEPT ![r.channel_id] = Append(@, m)]
                  /\ sent_log' = [sent_log EXCEPT ![r.channel_id] =
                         Append(@, [nsubs |-> r.nsubs,
                                    at_write |-> Cardinality(DOMAIN subscriptions[r.channel_id]),
                                    page |-> [i \in 1..Len(r.page) |-> r.page[i].id],
                                    text |-> r.message,
                                    overtaken |-> r.overtaken,
                                    outcome |-> r.outcome])]
             ELSE UNCHANGED <<messages, sent_log>>
          /\ req' = [req EXCEPT ![s] =
                [Respond(r, SendStatus(store_ok, r.outcome)) EXCEPT
                     !.wrote = store_ok, !.failed = ~store_ok]]
    /\ UNCHANGED <<channels, subscriptions, rate_limiter, recent, window>>

\* the response has been sent: the slot is free for the next request
Finish(s) ==
    /\ req[s].pc = "done"
    /\ req' = [req EXCEPT ![s] = IdleReq]
    /\ UNCHANGED <<store, rate_limiter, sent_log, recent, window>>

-----------------------------------------------------------------------------
(* Spec: the handlers under concurrent requests of clients that stay       *)
(* below their quota.                                                      *)

Headers == {NoHeader}

UnderBurst(h) == Load(KeyOf(h)) < MaxBurst

RegistersInFlight ==
    Cardinality({s \in Slots : req[s].route = "register_channel" /\ req[s].pc # "done"})

Next ==
    \/ \E s \in Workers, cid \in ChannelIds, h \in Headers :
          UnderBurst(h) /\ Receive(s, "info", cid, h, 0, "", "")
    \/ \E s \in Workers, cid \in ChannelIds, h \in Headers, sid \in SubIds, ep \in {GoodEndpoint} :
          UnderBurst(h) /\ Receive(s, "subscribe", cid, h, sid, ep, "")
    \/ \E s \in Workers, h \in Headers :
          /\ UnderBurst(h)
          /\ Cardinality(channels) + RegistersInFlight < MaxChannels
          /\ Receive(s, "register_channel", 0, h, 0, "", "")
    \/ \E s \in Workers, cid \in ChannelIds, h \in Headers, body \in Bodies :
          /\ TotalMessages + SendsInFlight < MaxMessages
          /\ Receive(s, "send", cid, h, 0, "", body)
    \/ \E s \in Workers : CheckKey(s)
    \/ \E s \in Workers : DbAcquire(s)
    \/ \E s \in Workers, ok \in BOOLEAN : ChannelsGet(s, ok)
    \/ \E s \in Workers, ok \in BOOLEAN, id \in ChannelIds : ChannelsCreate(s, ok, id)
    \/ \E s \in Workers : ListMessages(s)
    \/ \E s \in Workers, ok \in BOOLEAN : TryCreate(s, ok)
    \/ \E s \in Workers : ListSubscriptions(s)
    \/ \E s \in Workers, result \in PushResults : \E i \in 1..Len(req[s].outcome) :
          PushResponds(s, i, result)
    \/ \E s \in Workers : \E i \in 1..Len(req[s].outcome) : TimerFires(s, i)
    \/ \E s \in Workers, ok \in BOOLEAN : MessagesCreate(s, ok)
    \/ \E s \in Workers : Finish(s)
    \/ Tick

Spec == Init /\ [][Next]_vars

\* Spec with the scheduling of the runtime: a ready handler step is taken,
\* and the timer of a pending delivery fires
FairSpec ==
    /\ Spec
    /\ \A s \in Workers :
          /\ WF_vars(DbAcquire(s))
          /\ WF_vars(\E ok \in BOOLEAN : ChannelsGet(s, ok))
          /\ WF_vars(ListSubscriptions(s))
          /\ WF_vars(\E i \in 1..Len(req[s].outcome) : TimerFires(s, i))
          /\ WF_vars(\E ok \in BOOLEAN : MessagesCreate(s, ok))

-----------------------------------------------------------------------------
(* Claims on the delivery dispatcher.                                      *)

Logged == {<<c, i>> \in ChannelIds \X (1..MaxMessages) : i <= Len(messages[c])}

\* C1: a send whose Message record was written answers 200, whatever the
\* deliveries came to
C1_SendSucceedsWhenStored ==
    \A s \in Slots :
        (req[s].pc = "done" /\ req[s].route = "send" /\ req[s].wrote)
            => req[s].status = 200

\* a send of two deliveries, one failed and one timed out, answered 200
C1_Witness ==
    \E s \in Slots :
        /\ req[s].pc = "done" /\ req[s].route = "send" /\ req[s].wrote
        /\ req[s].status = 200
        /\ req[s].outcome = <<"Err", Elapsed>>

\* C3: every persisted Message holds one DeliveryResult per subscription of
\* the page its send fetched
C3_OneResultPerFetched ==
    \A e \in Logged :
        Len(messages[e[1]][e[2]].result) = Len(sent_log[e[1]][e[2]].page)

\* a message of one failed delivery, written after a second subscription
\* had been added to the channel
C3_Witness ==
    \E e \in Logged :
        /\ sent_log[e[1]][e[2]].nsubs = 1
        /\ sent_log[e[1]][e[2]].at_write = 2
        /\ Len(messages[e[1]][e[2]].result) = 1
        /\ sent_log[e[1]][e[2]].outcome[1] # "Ok"

\* C4 (safety): in every persisted Message the deliveries that did not
\* return in time, and only those, carry "Timed out.", and every other
\* result carries the status of its own delivery
C4_OwnStatus ==
    \A e \in Logged :
        LET m == messages[e[1]][e[2]]
            l == sent_log[e[1]][e[2]]
        IN \A j \in 1..Len(l.outcome) :
              /\ j <= Len(m.result)
              /\ (l.outcome[j] = Elapsed) <=> (m.result[j].result_status = "Timed out.")
              /\ (l.outcome[j] = "Ok") <=> (m.result[j].result_status = "201")
              /\ (l.outcome[j] = "Err") <=> (m.result[j].result_status = PushErrorText)

\* C4: the above, and a send that waits for its deliveries completes
C4_TimeoutDoesNotBlock ==
    /\ []C4_OwnStatus
    /\ \A s \in Slots : (req[s].pc = "join") ~> (req[s].pc = "done")

\* a message of two deliveries: the first never returned, the second was
\* delivered
C4_Witness ==
    \E e \in Logged :
        /\ sent_log[e[1]][e[2]].outcome = <<Elapsed, "Ok">>
        /\ messages[e[1]][e[2]].result[1].result_status = "Timed out."
        /\ messages[e[1]][e[2]].result[2].result_status = "201"

\* C5: a handler asked for a channel that was never created answers 404,
\* starts no delivery, and no Subscription or Message exists under a
\* channel that was not created
C5_NotFound ==
    /\ \A s \in Slots :
          (req[s].called /\ req[s].route \in {"info", "subscribe", "send"}
              /\ req[s].channel_id \notin channels)
            => /\ req[s].pc \in {"db", "get", "done"}
               /\ req[s].pc = "done" => req[s].status = 404
               /\ req[s].page = <<>>
    /\ \A c \in ChannelIds \ channels :
          subscriptions[c] = <<>> /\ messages[c] = <<>>

\* a send and a subscribe on a channel that was never created both answered
\* 404 while another channel exists
C5_Witness ==
    /\ channels # {}
    /\ \E s, t \in Slots :
          /\ req[s].pc = "done" /\ req[s].route = "send"
          /\ req[t].pc = "done" /\ req[t].route = "subscribe"
          /\ req[s].channel_id \notin channels /\ req[t].channel_id \notin channels
          /\ req[s].status = 404 /\ req[t].status = 404

-----------------------------------------------------------------------------
(* SpecPage: sends on a channel that holds up to one subscription more     *)
(* than a page.                                                            *)

\* deliveries of one send that fail or time out, in SpecPage
MaxFaulty == 1

MaxSubsPage == SUBSCRIPTIONS_PAGE_SIZE + 1

PageSubscription == [endpoint |-> GoodEndpoint, auth |-> "auth", p256dh |-> "p256dh"]

\* the store after a register and K subscribes with the ids 1..K
InitPage ==
    /\ channels = {1}
    /\ \E K \in 0..MaxSubsPage :
          subscriptions = [c \in ChannelIds |->
              IF c = 1 THEN [i \in 1..K |-> PageSubscription] ELSE <<>>]
    /\ messages = [c \in ChannelIds |-> <<>>]
    /\ rate_limiter = <<>>
    /\ req = [s \in Slots |-> IdleReq]
    /\ sent_log = [c \in ChannelIds |-> <<>>]
    /\ recent = [c \in Clients |-> 0]
    /\ window = NoWindow

Faulty(s) == Cardinality({i \in 1..Len(req[s].outcome) : req[s].outcome[i] \in {"Err", Elapsed}})

NextPage ==
    \/ \E body \in Bodies :
          /\ TotalMessages + SendsInFlight < MaxMessages
          /\ Receive(1, "send", 1, NoHeader, 0, "", body)
    \/ DbAcquire(1)
    \/ \E ok \in BOOLEAN : ChannelsGet(1, ok)
    \/ ListSubscriptions(1)
    \/ \E i \in 1..Len(req[1].outcome) : PushResponds(1, i, "Ok")
    \/ \E i \in 1..Len(req[1].outcome) :
          Faulty(1) < MaxFaulty /\ PushResponds(1, i, "Err")
    \/ \E i \in 1..Len(req[1].outcome) :
          Faulty(1) < MaxFaulty /\ TimerFires(1, i)
    \/ \E ok \in BOOLEAN : MessagesCreate(1, ok)
    \/ Finish(1)

SpecPage == InitPage /\ [][NextPage]_vars

\* C2 as stated: the result list of a persisted Message has as many entries
\* as the channel had subscriptions when the send listed them
C2_ResultPerSubscription ==
    \A e \in Logged :
        Len(messages[e[1]][e[2]].result) = sent_log[e[1]][e[2]].nsubs

\* C2 as amended: as many entries as the channel had subscriptions, up to
\* the page size of 10
C2_ResultPerSubscriptionOfPage ==
    \A e \in Logged :
        Len(messages[e[1]][e[2]].result)
            = Min(sent_log[e[1]][e[2]].nsubs, SUBSCRIPTIONS_PAGE_SIZE)

\* a message of 10 results sent to a channel of 11 subscriptions
C2_Witness ==
    \E e \in Logged :
        /\ sent_log[e[1]][e[2]].nsubs = SUBSCRIPTIONS_PAGE_SIZE + 1
        /\ Len(messages[e[1]][e[2]].result) = SUBSCRIPTIONS_PAGE_SIZE

-----------------------------------------------------------------------------
(* SpecWindow: one client identity against its quota, as time passes.      *)

InitWindow ==
    /\ channels = {}
    /\ subscriptions = [c \in ChannelIds |-> <<>>]
    /\ messages = [c \in ChannelIds |-> <<>>]
    /\ rate_limiter = <<>>
    /\ req = [s \in Slots |-> IdleReq]
    /\ sent_log = [c \in ChannelIds |-> <<>>]
    /\ recent = [c \in Clients |-> 0]
    /\ window = [NoWindow EXCEPT !.watch = TRUE]

NextWindow ==
    \/ Receive(1, "info", 1, TextHeader(ClientA), 0, "", "")
    \/ CheckKey(1)
    \/ DbAcquire(1)
    \/ \E ok \in BOOLEAN : ChannelsGet(1, ok)
    \/ Finish(1)
    \/ Tick

SpecWindow == InitWindow /\ [][NextWindow]_vars

\* C6 as stated: the request after the N-th of a window is rejected, and
\* the first request after a window has elapsed is admitted
C6_WindowQuota ==
    /\ (window.open /\ window.count > MAX_REQUESTS_PER_MINUTE)
          => window.last = "rejected"
    /\ (window.open /\ window.count = 1) => window.last = "admitted"

\* C6 as amended: the request after the N-th is rejected while no permit
\* has been replenished since the window opened, and the first request
\* after a window has elapsed is admitted
C6_BurstQuota ==
    /\ (window.open /\ window.count > MAX_REQUESTS_PER_MINUTE /\ window.age = 0)
          => window.last = "rejected"
    /\ (window.open /\ window.count = 1) => window.last = "admitted"

\* the first request of a window is admitted after a request of an earlier
\* window was rejected
C6_Witness ==
    /\ window.open /\ window.count = 1 /\ window.last = "admitted"
    /\ window.limited

-----------------------------------------------------------------------------
(* SpecRate: two client identities, one request at a time, on all routes.  *)

RateHeaders == {TextHeader(ClientA), TextHeader(ClientB)}

NextRate ==
    \/ \E cid \in ChannelIds, h \in RateHeaders : Receive(1, "info", cid, h, 0, "", "")
    \/ \E h \in RateHeaders : Receive(1, "subscribe", 1, h, 1, GoodEndpoint, "")
    \/ \E h \in RateHeaders :
          /\ Cardinality(channels) + RegistersInFlight < MaxChannels
          /\ Receive(1, "register_channel", 0, h, 0, "", "")
    \/ \E h \in RateHeaders, body \in Bodies :
          /\ TotalMessages + SendsInFlight < MaxMessages
          /\ Receive(1, "send", 1, h, 0, "", body)
    \/ CheckKey(1)
    \/ DbAcquire(1)
    \/ \E ok \in BOOLEAN : ChannelsGet(1, ok)
    \/ \E ok \in BOOLEAN : ChannelsCreate(1, ok, 1)
    \/ ListMessages(1)
    \/ \E ok \in BOOLEAN : TryCreate(1, ok)
    \/ ListSubscriptions(1)
    \/ \E result \in PushResults, i \in 1..Len(req[1].outcome) : PushResponds(1, i, result)
    \/ \E i \in 1..Len(req[1].outcome) : TimerFires(1, i)
    \/ \E ok \in BOOLEAN : MessagesCreate(1, ok)
    \/ Finish(1)
    \/ Tick

SpecRate == Init /\ [][NextRate]_vars

\* C7: a rejected request has answered 429, its handler was not called, it
\* holds no pool handle, and the step that rejects it leaves the store as
\* it was
C7_RejectedNotHandled ==
    /\ [](\A s \in Slots :
            req[s].verdict = "rejected"
              => /\ req[s].pc = "done" /\ req[s].status = 429
                 /\ ~req[s].called /\ ~req[s].handle)
    /\ [][(\E s \in Slots : req[s].verdict # "rejected" /\ req'[s].verdict = "rejected")
            => store' = store]_vars

\* a request was rejected while the store holds a channel
C7_Witness ==
    /\ channels # {}
    /\ \E s \in Slots : req[s].verdict = "rejected" /\ req[s].status = 429

C10_OwnBucket ==
    [][\A s \in Slots :
         (req[s].pc = "check_key" /\ req[s].xff.present /\ req[s].xff.text)
           => /\ \A k \in DOMAIN rate_limiter \ {req[s].xff.value} :
                    rate_limiter'[k] = rate_limiter[k]
              /\ req'[s].verdict = "rejected"
                    => recent[req[s].xff.value] >= MAX_REQUESTS_PER_MINUTE]_vars

\* a request of ClientB is admitted while the quota of ClientA is exhausted
C10_Witness ==
    /\ Load(ClientA) = MAX_REQUESTS_PER_MINUTE
    /\ \E s \in Slots : req[s].xff = TextHeader(ClientB) /\ req[s].verdict = "admitted"

-----------------------------------------------------------------------------
(* SpecCas: concurrent requests of two client identities within one        *)
(* replenishment interval.                                                 *)

NextCas ==
    \/ \E s \in Workers, h \in RateHeaders : Receive(s, "info", 1, h, 0, "", "")
    \/ \E s \in Workers : CheckKey(s)
    \/ \E s \in Workers : DbAcquire(s)
    \/ \E s \in Workers, ok \in BOOLEAN : ChannelsGet(s, ok)
    \/ \E s \in Workers : Finish(s)

SpecCas == Init /\ [][NextCas]_vars

\* C9: every admitted request has taken a permit of its own from the bucket
\* of its identity, and no bucket gives out more than it holds
C9_AtomicCheckAndConsume ==
    \A c \in Clients :
        /\ recent[c] = Load(c)
        /\ Load(c) <= MAX_REQUESTS_PER_MINUTE

\* two concurrent requests of ClientA raced for its last permit: one was
\* admitted, the other read again and was rejected
C9_Witness ==
    /\ Load(ClientA) = MAX_REQUESTS_PER_MINUTE
    /\ \E s, u \in Slots :
          /\ req[s].xff = TextHeader(ClientA) /\ req[u].xff = TextHeader(ClientA)
          /\ req[s].verdict = "admitted"
          /\ req[u].verdict = "rejected" /\ req[u].retried

-----------------------------------------------------------------------------
(* Claims on the persistence of a send, checked in Spec.                   *)

\* C11: the step that writes a Message record is the step of a send all of
\* whose deliveries have resolved; a send that answers 200 has appended
\* exactly one Message to its channel and to no other, and a send that
\* answers anything else has appended none
C11_WriteAfterDeliveries ==
    [][/\ \A s \in Slots :
            (req[s].route = "send" /\ req[s].pc # "done" /\ req'[s].pc = "done")
              => IF req'[s].status = 200
                 THEN /\ \A i \in 1..Len(req[s].outcome) : req[s].outcome[i] # Pending
                      /\ Len(messages'[req[s].channel_id])
                            = Len(messages[req[s].channel_id]) + 1
                      /\ \A d \in ChannelIds \ {req[s].channel_id} :
                            messages'[d] = messages[d]
                 ELSE messages' = messages
       /\ messages' # messages
            => \E s \in Slots :
                  /\ req[s].route = "send" /\ req[s].pc = "join"
                  /\ req'[s].pc = "done" /\ req'[s].status = 200]_vars

\* a send of two deliveries, one timed out, has answered 200 and the channel
\* holds its one Message, after another send failed at the write and
\* appended none
C11_Witness ==
    \E s, t \in Slots :
        /\ req[s].route = "send" /\ req[s].pc = "done" /\ req[s].status = 200
        /\ Len(req[s].outcome) = 2 /\ req[s].outcome[2] = Elapsed
        /\ Len(messages[req[s].channel_id]) = 1
        /\ req[t].route = "send" /\ req[t].pc = "done" /\ req[t].status = 500
        /\ req[t].channel_id = req[s].channel_id /\ ~req[t].wrote

\* C12: the status of every DeliveryResult of a persisted Message is the
\* one of its own delivery ("201", the error text, or "Timed out."), and a
\* step that resolves one delivery of a send leaves the other deliveries
\* of that send as they were
C12_OwnOutcome ==
    /\ [](\A e \in Logged :
            LET m == messages[e[1]][e[2]]
                l == sent_log[e[1]][e[2]]
            IN /\ Len(m.result) = Len(l.outcome)
               /\ \A j \in 1..Len(l.outcome) :
                     m.result[j].result_status =
                        CASE l.outcome[j] = "Ok" -> "201"
                          [] l.outcome[j] = "Err" -> "unauthorized"
                          [] l.outcome[j] = ClientErr -> "could not construct client"
                          [] l.outcome[j] = Elapsed -> "Timed out."
                          [] OTHER -> "")
    /\ [][\A s \in Slots :
            (req[s].pc = "join" /\ req'[s].pc = "join")
              => \A i, j \in 1..Len(req[s].outcome) :
                    (i # j /\ req'[s].outcome[i] # req[s].outcome[i])
                      => req'[s].outcome[j] = req[s].outcome[j]]_vars

\* a message of two deliveries: the first failed, the second was delivered
\* and carries "201"
C12_Witness ==
    \E e \in Logged :
        /\ sent_log[e[1]][e[2]].outcome = <<"Err", "Ok">>
        /\ messages[e[1]][e[2]].result[1].result_status = PushErrorText
        /\ messages[e[1]][e[2]].result[2].result_status = "201"

-----------------------------------------------------------------------------
(* Claims on the error taxonomy.                                           *)

\* C13 as stated: a request whose store call failed answers 500
C13_StoreFailureIsInternal ==
    \A s \in Slots :
        (req[s].pc = "done" /\ req[s].called /\ req[s].failed)
            => req[s].status = 500

-----------------------------------------------------------------------------
(* SpecSend: sends of every kind of body on a channel of up to two         *)
(* subscriptions, where a delivery can also fail to construct its push     *)
(* client.                                                                 *)

\* the bodies of the tests of vapid.rs, a form without a message field and
\* a form with an empty message
SendBodies ==
    {"my message",
     "message=this+is+my+message",
     "message=this+is+my+message&action=https://www.example.com/",
     "action=https://www.example.com/",
     "message="}

SendResults == {"Ok", "Err", ClientErr}

\* the store after a register and K subscribes
InitSend ==
    /\ channels = {1}
    /\ \E K \in 0..MaxSubId :
          subscriptions = [c \in ChannelIds |->
              IF c = 1
              THEN [i \in 1..K |-> [endpoint |-> IF i = 1 THEN GoodEndpoint ELSE PathEndpoint,
                                     auth |-> "auth", p256dh |-> "p256dh"]]
              ELSE <<>>]
    /\ messages = [c \in ChannelIds |-> <<>>]
    /\ rate_limiter = <<>>
    /\ req = [s \in Slots |-> IdleReq]
    /\ sent_log = [c \in ChannelIds |-> <<>>]
    /\ recent = [c \in Clients |-> 0]
    /\ window = [NoWindow EXCEPT !.orders = TRUE]

NextSend ==
    \/ \E cid \in ChannelIds, body \in SendBodies :
          /\ TotalMessages + SendsInFlight < MaxMessages
          /\ Receive(1, "send", cid, NoHeader, 0, "", body)
    \/ DbAcquire(1)
    \/ \E ok \in BOOLEAN : ChannelsGet(1, ok)
    \/ ListSubscriptions(1)
    \/ \E result \in SendResults, i \in 1..Len(req[1].outcome) : PushResponds(1, i, result)
    \/ \E i \in 1..Len(req[1].outcome) : TimerFires(1, i)
    \/ \E ok \in BOOLEAN : MessagesCreate(1, ok)
    \/ Finish(1)

SpecSend == InitSend /\ [][NextSend]_vars

\* C14 as stated: a send one of whose deliveries could not construct its
\* push client answers 500
C14_ClientFailureIsInternal ==
    \A s \in Slots :
        (req[s].route = "send" /\ req[s].pc = "done"
            /\ \E i \in 1..Len(req[s].outcome) : req[s].outcome[i] = ClientErr)
          => req[s].status = 500

-----------------------------------------------------------------------------
(* Claims on subscriptions.                                                *)

\* C15: a subscribe that answers 200 leaves a record under its id, holding
\* its endpoint when the id was new, and no step other than a subscribe
\* with the id of a record removes or changes that record
C15_SubscriptionsKept ==
    [][/\ \A s \in Slots :
            (req[s].pc = "try_create" /\ req'[s].pc = "done" /\ req'[s].status = 200)
              => /\ req[s].sub_id \in DOMAIN subscriptions'[req[s].channel_id]
                 /\ req[s].sub_id \notin DOMAIN subscriptions[req[s].channel_id]
                      => subscriptions'[req[s].channel_id][req[s].sub_id].endpoint
                            = req[s].endpoint
       /\ \A c \in ChannelIds : \A k \in DOMAIN subscriptions[c] :
            (\A s \in Slots : ~(/\ req[s].pc = "try_create" /\ req'[s].pc = "done"
                                 /\ req[s].channel_id = c /\ req[s].sub_id = k))
              => /\ k \in DOMAIN subscriptions'[c]
                 /\ subscriptions'[c][k] = subscriptions[c][k]]_vars

\* a channel holds the subscriptions 1 and 2 and a message sent to the
\* first of them before the second was stored
C15_Witness ==
    \E e \in Logged :
        /\ DOMAIN subscriptions[e[1]] = {1, 2}
        /\ sent_log[e[1]][e[2]].page = <<1>>
        /\ sent_log[e[1]][e[2]].at_write = 1

-----------------------------------------------------------------------------
(* SpecSeq: one client that registers, subscribes with either endpoint,    *)
(* sends and asks for the info, one request after the other.               *)

SeqBodies == {"hello", "bye"}

\* messages persisted in one run of SpecSeq
SeqMessages == MaxMessages + 1

NextSeq ==
    \/ \E cid \in ChannelIds : UnderBurst(NoHeader) /\ Receive(1, "info", cid, NoHeader, 0, "", "")
    \/ \E sid \in SubIds, ep \in Endpoints :
          UnderBurst(NoHeader) /\ Receive(1, "subscribe", 1, NoHeader, sid, ep, "")
    \/ /\ UnderBurst(NoHeader)
       /\ Cardinality(channels) + RegistersInFlight < MaxChannels
       /\ Receive(1, "register_channel", 0, NoHeader, 0, "", "")
    \/ \E body \in SeqBodies :
          /\ TotalMessages + SendsInFlight < SeqMessages
          /\ Receive(1, "send", 1, NoHeader, 0, "", body)
    \/ CheckKey(1)
    \/ DbAcquire(1)
    \/ \E ok \in BOOLEAN : ChannelsGet(1, ok)
    \/ \E ok \in BOOLEAN : ChannelsCreate(1, ok, 1)
    \/ ListMessages(1)
    \/ \E ok \in BOOLEAN : TryCreate(1, ok)
    \/ ListSubscriptions(1)
    \/ \E result \in PushResults, i \in 1..Len(req[1].outcome) : PushResponds(1, i, result)
    \/ \E i \in 1..Len(req[1].outcome) : TimerFires(1, i)
    \/ \E ok \in BOOLEAN : MessagesCreate(1, ok)
    \/ Finish(1)
    \/ Tick

SpecSeq == Init /\ [][NextSeq]_vars

\* C16: a subscribe with an id the channel already holds leaves the record
\* of that id as it was
C16_NoOverwrite ==
    [][\A s \in Slots :
         (req[s].pc = "try_create"
             /\ req[s].sub_id \in DOMAIN subscriptions[req[s].channel_id])
           => /\ req[s].sub_id \in DOMAIN subscriptions'[req[s].channel_id]
              /\ subscriptions'[req[s].channel_id][req[s].sub_id]
                    = subscriptions[req[s].channel_id][req[s].sub_id]]_vars

\* a subscribe with the id of a stored subscription and another endpoint
\* has answered 200, and the stored endpoint is still the first one
C16_Witness ==
    \E s \in Slots :
        /\ req[s].route = "subscribe" /\ req[s].pc = "done" /\ req[s].status = 200
        /\ req[s].endpoint = PathEndpoint
        /\ req[s].sub_id \in DOMAIN subscriptions[req[s].channel_id]
        /\ subscriptions[req[s].channel_id][req[s].sub_id].endpoint = GoodEndpoint

-----------------------------------------------------------------------------
(* Claims on the payload and on the attempts of a send, checked in         *)
(* SpecSend.                                                               *)

\* C17: the payload of a send is the one its body, its channel id and the
\* channel-page URL determine: a form with a message field gives the decoded
\* field and the form's action or else the channel page; any other body is
\* the message itself with the channel page as action; vibrate and silent
\* are false and channel is the channel id
C17_PayloadOfBody ==
    \A s \in Slots :
        req[s].payload # <<>> =>
            LET p == req[s].payload
                raw == req[s].message
                page == <<"/c/", req[s].channel_id>>
            IN /\ p.channel = req[s].channel_id
               /\ p.vibrate = FALSE /\ p.silent = FALSE
               /\ raw = "my message"
                    => p.message = "my message" /\ p.data.action = page
               /\ raw = "message=this+is+my+message"
                    => p.message = "this is my message" /\ p.data.action = page
               /\ raw = "message=this+is+my+message&action=https://www.example.com/"
                    => /\ p.message = "this is my message"
                       /\ p.data.action = <<"https://www.example.com/">>
               /\ raw = "action=https://www.example.com/"
                    => p.message = raw /\ p.data.action = page
               /\ raw = "message="
                    => p.message = "" /\ p.data.action = page

\* a send of a form with a message and an action has stored the decoded
\* message
C17_Witness ==
    \E s \in Slots :
        /\ req[s].pc = "done" /\ req[s].status = 200
        /\ req[s].message = "message=this+is+my+message&action=https://www.example.com/"
        /\ req[s].payload.data.action = ExampleUrl
        /\ messages[req[s].channel_id][1].message = "this is my message"

\* C20: a send holds one delivery per fetched subscription, each of a
\* different subscription, and a delivery that has resolved stays as it
\* resolved until the send has answered
C20_SingleAttempt ==
    /\ [](\A s \in Slots :
            /\ Len(req[s].outcome) = Len(req[s].page)
            /\ \A i, j \in 1..Len(req[s].page) :
                  i # j => req[s].page[i].id # req[s].page[j].id)
    /\ [][\A s \in Slots :
            (req[s].pc = "join" /\ req'[s].pc \in {"join", "done"})
              => /\ Len(req'[s].outcome) = Len(req[s].outcome)
                 /\ \A i \in 1..Len(req[s].outcome) :
                       req[s].outcome[i] # Pending
                         => req'[s].outcome[i] = req[s].outcome[i]]_vars

\* a send waits to write its Message after its first delivery timed out
\* and its second returned an error
C20_Witness ==
    \E s \in Slots :
        /\ req[s].pc = "join"
        /\ req[s].outcome = <<Elapsed, "Err">>

-----------------------------------------------------------------------------
(* Claims on what info shows, checked in SpecSeq, and on the page of a     *)
(* send, checked in SpecPage.                                              *)

\* C18: an info that answered 200 shows every Message of the channel that
\* is among its 10 newest, newest first: the text that was sent and one
\* DeliveryResult per subscription the send fetched, with the domain of
\* that subscription's endpoint and the status of its delivery
C18_InfoShowsSent ==
    \A s \in Slots :
        (req[s].route = "info" /\ req[s].pc = "done" /\ req[s].status = 200) =>
            LET c == req[s].channel_id
                n == Len(messages[c])
            IN /\ Len(req[s].body) = Min(n, 10)
               /\ \A i \in 1..n :
                     n - i < 10 =>
                        LET b == req[s].body[n - i + 1]
                            l == sent_log[c][i]
                        IN /\ b.message = l.text
                           /\ Len(b.result) = Len(l.page)
                           /\ \A j \in 1..Len(l.page) :
                                 /\ b.result[j].endpoint_domain =
                                       IF subscriptions[c][l.page[j]].endpoint
                                            = "https://push.example.com/abc"
                                       THEN "push.example.com" ELSE ""
                                 /\ (b.result[j].result_status = "201")
                                       <=> (l.outcome[j] = "Ok")

\* after a register, a subscribe and a send of "hello", an info shows one
\* message "hello" with one DeliveryResult of push.example.com
C18_Witness ==
    \E s \in Slots :
        /\ req[s].route = "info" /\ req[s].pc = "done" /\ req[s].status = 200
        /\ req[s].body = <<[message |-> "hello",
                            result |-> <<[result_status |-> "201",
                                          endpoint_domain |-> "push.example.com"]>>]>>

\* C19: a send starts deliveries for the first 10 subscriptions of the
\* channel's listing at most, and its Message holds results for those only
C19_FanOutCapped ==
    /\ \A s \in Slots :
          /\ Len(req[s].outcome) <= 10
          /\ \A i \in 1..Len(req[s].page) : req[s].page[i].id = i
    /\ \A e \in Logged :
          /\ Len(messages[e[1]][e[2]].result) <= 10
          /\ \A i \in 1..Len(sent_log[e[1]][e[2]].page) :
                sent_log[e[1]][e[2]].page[i] = i

\* a send on a channel of 11 subscriptions waits for 10 deliveries
C19_Witness ==
    \E s \in Slots :
        /\ req[s].pc = "join" /\ req[s].nsubs = 11
        /\ Len(req[s].outcome) = 10
        /\ 11 \in DOMAIN subscriptions[req[s].channel_id]

-----------------------------------------------------------------------------
(* SpecPool: one request more than the pool has handles, all sends, on a   *)
(* created and on a never-created channel.                                 *)

\* sends accepted in one run of SpecPool
PoolMessages == PoolMaxSize + 2

InitPool ==
    /\ channels = {1}
    /\ \E K \in 0..1 :
          subscriptions = [c \in ChannelIds |->
              IF c = 1 THEN [i \in 1..K |-> PageSubscription] ELSE <<>>]
    /\ messages = [c \in ChannelIds |-> <<>>]
    /\ rate_limiter = <<>>
    /\ req = [s \in Slots |-> IdleReq]
    /\ sent_log = [c \in ChannelIds |-> <<>>]
    /\ recent = [c \in Clients |-> 0]
    /\ window = NoWindow

NextPool ==
    \/ \E s \in Slots, cid \in ChannelIds :
          /\ TotalMessages + SendsInFlight < PoolMessages
          /\ Receive(s, "send", cid, NoHeader, 0, "", "hello")
    \/ \E s \in Slots : DbAcquire(s)
    \/ \E s \in Slots, ok \in BOOLEAN : ChannelsGet(s, ok)
    \/ \E s \in Slots : ListSubscriptions(s)
    \/ \E s \in Slots : \E i \in 1..Len(req[s].outcome) : PushResponds(s, i, "Ok")
    \/ \E s \in Slots : \E i \in 1..Len(req[s].outcome) : TimerFires(s, i)
    \/ \E s \in Slots, ok \in BOOLEAN : MessagesCreate(s, ok)
    \/ \E s \in Slots : Finish(s)

SpecPool == InitPool /\ [][NextPool]_vars

\* SpecPool with the scheduling of the runtime: a ready handler step is
\* taken and the timer of a pending delivery fires; the pool serves its
\* waiters in the order of their arrival, so a request that keeps finding
\* handles given back gets one
FairPool ==
    /\ SpecPool
    /\ \A s \in Slots :
          /\ SF_vars(DbAcquire(s))
          /\ WF_vars(\E ok \in BOOLEAN : ChannelsGet(s, ok))
          /\ WF_vars(ListSubscriptions(s))
          /\ WF_vars(\E i \in 1..Len(req[s].outcome) : TimerFires(s, i))
          /\ WF_vars(\E ok \in BOOLEAN : MessagesCreate(s, ok))

\* a handle is held only between its acquisition and the end of the
\* handler, whatever the handler answers, and no more handles are in use
\* than the pool has
C21_HandlesBounded ==
    /\ InUse <= PoolMaxSize
    /\ \A s \in Slots :
          /\ req[s].handle => req[s].pc \notin {"idle", "check_key", "db", "done"}
          /\ (req[s].called /\ req[s].pc \notin {"idle", "check_key", "db", "done"})
                => req[s].handle

\* C21: the above, and every request that waits for a handle obtains one
C21_HandleReleased ==
    /\ []C21_HandlesBounded
    /\ \A s \in Slots : (req[s].pc = "db") ~> req[s].handle

\* a request waits on the saturated pool after an earlier send has written
\* its Message and given its handle back: with more acquisitions than the
\* pool has handles, one of the handles in use was acquired again
C21_Witness ==
    /\ InUse = PoolMaxSize
    /\ \E s \in Slots : req[s].pc = "db" /\ ~req[s].handle
    /\ Logged # {}

-----------------------------------------------------------------------------
(* Claim on the order of the results, checked in SpecSend.                 *)

\* C22: the i-th DeliveryResult of a persisted Message carries the domain
\* of the endpoint of the i-th subscription its send fetched and the status
\* of the delivery to that subscription, in whatever order the deliveries
\* resolved
C22_ResultsInPageOrder ==
    \A e \in Logged :
        LET m == messages[e[1]][e[2]]
            l == sent_log[e[1]][e[2]]
        IN /\ Len(m.result) = Len(l.page)
           /\ \A i \in 1..Len(l.page) :
                 /\ m.result[i].endpoint_domain =
                       IF subscriptions[e[1]][l.page[i]].endpoint
                            = "https://push.example.com/abc"
                       THEN "push.example.com" ELSE ""
                 /\ (m.result[i].result_status = "201") <=> (l.outcome[i] = "Ok")
                 /\ (m.result[i].result_status = "Timed out.") <=> (l.outcome[i] = Elapsed)

\* a message of two deliveries of which the second was delivered while the
\* first was pending and then timed out: the first result is the timeout
\* of push.example.com, the second the "201" of the endpoint without domain
C22_Witness ==
    \E e \in Logged :
        /\ sent_log[e[1]][e[2]].overtaken
        /\ sent_log[e[1]][e[2]].outcome = <<Elapsed, "Ok">>
        /\ messages[e[1]][e[2]].result =
              <<[result_status |-> "Timed out.", endpoint_domain |-> "push.example.com"],
                [result_status |-> "201", endpoint_domain |-> ""]>>

-----------------------------------------------------------------------------
(* SpecUnknown: two clients that send no usable x-forwarded-for header:    *)
(* the one on slot 1 sends none, the one on slot 2 sends one that is not   *)
(* valid text.                                                             *)

NextUnknown ==
    \/ Receive(1, "info", 1, NoHeader, 0, "", "")
    \/ Receive(2, "info", 1, OpaqueHeader, 0, "", "")
    \/ \E s \in Workers : CheckKey(s)
    \/ \E s \in Workers : DbAcquire(s)
    \/ \E s \in Workers, ok \in BOOLEAN : ChannelsGet(s, ok)
    \/ \E s \in Workers : Finish(s)
    \/ Tick

SpecUnknown == Init /\ [][NextUnknown]_vars

\* C23: a rate-limited request without an x-forwarded-for header, or with
\* one that is not valid text, is charged to the bucket "unknown", the only
\* bucket such requests create; while that bucket is exhausted no such
\* request is admitted, and a rejected one answers 429 without reaching its
\* handler
C23_UnknownShared ==
    /\ [](/\ DOMAIN rate_limiter \subseteq {"unknown"}
          /\ \A s \in Slots :
                (req[s].route \in {"info", "subscribe", "register_channel"}
                    /\ ~(req[s].xff.present /\ req[s].xff.text))
                  => req[s].ip = "unknown")
    /\ [][\A s \in Slots :
            (req[s].pc = "check_key" /\ ~(req[s].xff.present /\ req[s].xff.text))
              => /\ rate_limiter["unknown"] >= 20 => req'[s].verdict # "admitted"
                 /\ req'[s].verdict = "admitted"
                      => rate_limiter'["unknown"] = rate_limiter["unknown"] + 1
                 /\ req'[s].verdict = "rejected"
                      => req'[s].status = 429 /\ ~req'[s].called]_vars

\* the request with the header that is not text is rejected with 429 while
\* a request without header holds one of the 20 permits of "unknown"
C23_Witness ==
    /\ Load("unknown") = 20
    /\ req[1].xff = NoHeader /\ req[1].verdict = "admitted"
    /\ req[2].xff = OpaqueHeader /\ req[2].verdict = "rejected" /\ req[2].status = 429

-----------------------------------------------------------------------------
(* SpecRoutes: one client identity whose requests alternate between the    *)
(* routes of the rate-limited layer, within one replenishment interval.    *)

\* the route of the next request: a register while no channel exists, then
\* info and subscribe in turn; any of them once the quota is exhausted
NextRoute(route) ==
    IF Load(ClientA) >= MAX_REQUESTS_PER_MINUTE THEN TRUE
    ELSE IF channels = {} THEN route = "register_channel"
    ELSE IF Load(ClientA) % 2 = 0 THEN route = "info"
    ELSE route = "subscribe"

NextRoutes ==
    \/ NextRoute("info") /\ Receive(1, "info", 1, TextHeader(ClientA), 0, "", "")
    \/ \E sid \in SubIds :
          NextRoute("subscribe")
            /\ Receive(1, "subscribe", 1, TextHeader(ClientA), sid, GoodEndpoint, "")
    \/ /\ NextRoute("register_channel")
       /\ Receive(1, "register_channel", 0, TextHeader(ClientA), 0, "", "")
    \/ CheckKey(1)
    \/ DbAcquire(1)
    \/ \E ok \in BOOLEAN : ChannelsGet(1, ok)
    \/ \E ok \in BOOLEAN : ChannelsCreate(1, ok, 1)
    \/ ListMessages(1)
    \/ \E ok \in BOOLEAN : TryCreate(1, ok)
    \/ Finish(1)

SpecRoutes == Init /\ [][NextRoutes]_vars

\* C24: whatever its route, the check of a request charges the bucket of
\* its identity: an admitted request takes one permit of it, and once the
\* identity has MAX_REQUESTS_PER_MINUTE admitted requests not yet
\* replenished, on whichever routes, its next request is rejected
C24_QuotaSharedByRoutes ==
    [][\A s \in Slots :
         (req[s].pc = "check_key" /\ req[s].xff.present /\ req[s].xff.text)
           => /\ req[s].ip = req[s].xff.value
              /\ req'[s].verdict = "admitted"
                   => /\ recent[req[s].xff.value] < 20
                      /\ rate_limiter'[req[s].xff.value]
                            = rate_limiter[req[s].xff.value] + 1
              /\ recent[req[s].xff.value] >= 20
                   => req'[s].verdict = "rejected" /\ req'[s].status = 429]_vars

\* after a register and info and subscribe requests in turn have taken the
\* 20 permits of the identity, a subscribe is rejected
C24_Witness ==
    /\ channels # {}
    /\ recent[ClientA] = 20 /\ Load(ClientA) = 20
    /\ DOMAIN subscriptions[1] # {}
    /\ \E s \in Slots :
          req[s].route = "subscribe" /\ req[s].verdict = "rejected" /\ req[s].status = 429

-----------------------------------------------------------------------------
(* SpecRedirect: GET /:channel_id requests on slot 1 while the requests of *)
(* slot 2 register a channel, subscribe and send.                          *)

\* ids a GET /:channel_id can carry: well-formed ones, one of 6 characters,
\* one with a character that is not alphanumeric, one with a letter that
\* is not ASCII, and the id that bad clients ask for
PathIds == {"abcdefg", "abc123XYZ9", "abcdef", "abc-defg", "abcdefgé", "undefined"}

\* channel_id.chars().all(|c| char::is_ascii_alphanumeric(&c))
AllAsciiAlphanumeric(id) == id \in {"abcdefg", "abc123XYZ9", "abcdef", "undefined"}

\* channel_id.len(): the length in bytes
ByteLen(id) == IF id = "abcdefgé" THEN 9 ELSE Len(id)

\* faulty variant: an id of 6 characters is accepted
RedirectStatusFromSix(id) ==
    IF ByteLen(id) >= 6 /\ AllAsciiAlphanumeric(id) THEN 302 ELSE 404

\* redirect: the status by the shape of the id
RedirectStatus(id) ==
    IF ByteLen(id) > 6 /\ AllAsciiAlphanumeric(id) THEN 302 ELSE 404

\* serve: the route of a GET with a path of one segment; "/undefined" is
\* answered before "/:channel_id"
RouteOfGet(id) == IF id = "undefined" THEN "undefined" ELSE "redirect"

\* GET /:channel_id: redirect, or undefined, answers in one step, without
\* a handle of the pool
Get(s, id) ==
    /\ req[s].pc = "idle"
    /\ LET route == RouteOfGet(id)
           status == IF route = "undefined" THEN 404 ELSE RedirectStatus(id)
       IN req' = [req EXCEPT ![s] =
              [IdleReq EXCEPT !.route = route, !.path = id, !.called = TRUE,
                              !.pc = "done", !.status = status,
                              !.location = IF status = 302 THEN ChannelPageUrl(id)
                                           ELSE <<>>]]
    /\ UNCHANGED <<store, rate_limiter, sent_log, recent, window>>

NextRedirect ==
    \/ \E id \in PathIds : Get(1, id)
    \/ \E sid \in SubIds :
          UnderBurst(NoHeader) /\ Receive(2, "subscribe", 1, NoHeader, sid, GoodEndpoint, "")
    \/ /\ UnderBurst(NoHeader)
       /\ Cardinality(channels) + RegistersInFlight < MaxChannels
       /\ Receive(2, "register_channel", 0, NoHeader, 0, "", "")
    \/ \E body \in Bodies :
          /\ TotalMessages + SendsInFlight < MaxMessages
          /\ Receive(2, "send", 1, NoHeader, 0, "", body)
    \/ CheckKey(2)
    \/ DbAcquire(2)
    \/ \E ok \in BOOLEAN : ChannelsGet(2, ok)
    \/ \E ok \in BOOLEAN : ChannelsCreate(2, ok, 1)
    \/ \E ok \in BOOLEAN : TryCreate(2, ok)
    \/ ListSubscriptions(2)
    \/ \E result \in PushResults, i \in 1..Len(req[2].outcome) : PushResponds(2, i, result)
    \/ \E i \in 1..Len(req[2].outcome) : TimerFires(2, i)
    \/ \E ok \in BOOLEAN : MessagesCreate(2, ok)
    \/ \E s \in Workers : Finish(s)
    \/ Tick

SpecRedirect == Init /\ [][NextRedirect]_vars

====
